---- MODULE Spec2Model ----
(***************************************************************************)
(* Water-quality prediction service: the model store on disk               *)
(* (download.py), the prediction module with its cached components         *)
(* (predict.py) and the Flask server (main.py).                            *)
(*                                                                         *)
(* Numbers: the nine measurements are floats in the program; here they are *)
(* integers, which is enough for the range checks and comparisons the code *)
(* makes.  The scikit-learn objects (imputer, scaler, classifier) are      *)
(* opaque records; what the program does with them (which file each goes   *)
(* to, the order it calls them in) is modelled, their numerics are not.    *)
(* Wall-clock readings (datetime.now()) are taken to be non-decreasing.    *)
(***************************************************************************)
EXTENDS Integers, Sequences, FiniteSets, TLC

VARIABLES
    dirExists,          \* os.path.exists("saved_models")
    disk,               \* the files of saved_models: file name |-> content
    now,                \* the last reading of datetime.now(): <<date, time>>
    runs,               \* number of save_trained_model calls made so far
    lastSave,           \* arguments and timestamp of the last call of save_trained_model
    crashes,            \* number of those calls that were cut short
    loadResult,         \* what a script's call load_trained_model() returned or raised
    listing,            \* what a script's call list_saved_models() printed
    pc,                 \* the server process: "off" or "serving"
    model_loaded,       \* main.model_loaded
    model_components,   \* predict._model_components
    request,            \* the request being answered (None when idle)
    response,           \* the answer to it
    calls,              \* the library and loader calls made for that request, in order
    handlers,           \* the request threads of the threaded server: thread |-> its position
    checker             \* a run of water_quality_check.py: what was typed, read and printed

vars == <<dirExists, disk, now, runs, lastSave, crashes, loadResult, listing, pc, model_loaded,
          model_components, request, response, calls, handlers, checker>>

storeVars == <<dirExists, disk, now, runs, lastSave, crashes>>
scriptVars == <<loadResult, listing>>
serverVars == <<pc, model_loaded, model_components>>
exchangeVars == <<request, response, calls>>

-----------------------------------------------------------------------------
(* Bounds of the model *)

\* a request body differs from the nominal body in at most this many keys
MaxDeviations == 1

\* a run of water_quality_check.py has at most this many odd answers
MaxOddInputs == 2
\* save_trained_model calls in a behaviour of the server specification
MaxTrainRuns == 2
\* request threads of the threaded-server specification
MaxThreads == 2
\* save_trained_model calls in a behaviour of the store specification
MaxSaves == 2
\* of which at most this many are cut short
MaxCrashes == 1
\* the clock of the store specification reads one of the ticks 0..MaxClock, of
\* which TicksPerDay make a day
MaxClock == 3
TicksPerDay == 2

-----------------------------------------------------------------------------
(* Python's None; every optional value is a record with a none field *)
None == [none |-> TRUE]

\* the elements of a sequence
Range(s) == {s[i] : i \in 1..Len(s)}

\* the subsequence of s whose elements satisfy membership in keep, order kept
RECURSIVE FilterSeq(_, _)
FilterSeq(s, keep) ==
    IF s = <<>> THEN <<>>
    ELSE IF Head(s) \in keep THEN <<Head(s)>> \o FilterSeq(Tail(s), keep)
         ELSE FilterSeq(Tail(s), keep)

-----------------------------------------------------------------------------
(* The nine parameters and their ranges *)

required_params ==
    <<"ph", "hardness", "solids", "chloramines", "sulfate",
      "conductivity", "organic_carbon", "trihalomethanes", "turbidity">>

ParamNames == Range(required_params)

\* ranges of validate_input_parameters: name |-> <<min_val, max_val>>
ranges ==
    [p \in ParamNames |->
        CASE p = "ph" -> <<0, 14>>
          [] p = "hardness" -> <<0, 1000>>
          [] p = "solids" -> <<0, 100000>>
          [] p = "chloramines" -> <<0, 20>>
          [] p = "sulfate" -> <<0, 1000>>
          [] p = "conductivity" -> <<0, 2000>>
          [] p = "organic_carbon" -> <<0, 50>>
          [] p = "trihalomethanes" -> <<0, 200>>
          [] p = "turbidity" -> <<0, 20>>]

\* the iteration order of the params dict of validate_input_parameters
params_order ==
    <<"ph", "hardness", "solids", "chloramines", "sulfate",
      "conductivity", "organic_carbon", "trihalomethanes", "turbidity">>

-----------------------------------------------------------------------------
(* JSON values of a request body and Python's float() on them *)

\* t: "num" a JSON number v; "numstr" a string holding the numeral of v;
\*    "str" a string that is no numeral; "bool" true (v = 1) or false (v = 0);
\*    "null"; "absent" marks a key the object does not have
JNum(v) == [v |-> v, t |-> "num"]
JNumStr(v) == [v |-> v, t |-> "numstr"]
JStr == [v |-> 0, t |-> "str"]
JBool(v) == [v |-> v, t |-> "bool"]
JNull == [v |-> 0, t |-> "null"]
JAbsent == [v |-> 0, t |-> "absent"]

PyFloat_Strict(j) ==
    CASE j.t = "num" -> [ok |-> TRUE, val |-> j.v, exc |-> ""]
      [] j.t = "numstr" -> [ok |-> FALSE, val |-> 0, exc |-> "ValueError"]
      [] j.t = "str" -> [ok |-> FALSE, val |-> 0, exc |-> "ValueError"]
      [] j.t = "bool" -> [ok |-> FALSE, val |-> 0, exc |-> "TypeError"]
      [] j.t = "null" -> [ok |-> FALSE, val |-> 0, exc |-> "TypeError"]

\* float(x): numbers, numeral strings and booleans convert; other strings raise
\* ValueError, None raises TypeError
PyFloat(j) ==
    CASE j.t = "num" -> [ok |-> TRUE, val |-> j.v, exc |-> ""]
      [] j.t = "numstr" -> [ok |-> TRUE, val |-> j.v, exc |-> ""]
      [] j.t = "str" -> [ok |-> FALSE, val |-> 0, exc |-> "ValueError"]
      [] j.t = "bool" -> [ok |-> TRUE, val |-> j.v, exc |-> ""]
      [] j.t = "null" -> [ok |-> FALSE, val |-> 0, exc |-> "TypeError"]

-----------------------------------------------------------------------------
(* validate_input_parameters *)

OutOfRange_Exclusive(p, value) == ~(ranges[p][1] < value /\ value < ranges[p][2])

\* not (min_val <= value <= max_val)
OutOfRange(p, value) == ~(ranges[p][1] <= value /\ value <= ranges[p][2])

\* the warning appended for parameter p: the text names p, the value and the range
Warning(p, value) ==
    [value |-> value, param |-> p, min |-> ranges[p][1], max |-> ranges[p][2]]

RECURSIVE WarningsOf(_, _)
WarningsOf(names, x) ==
    IF names = <<>> THEN <<>>
    ELSE (IF OutOfRange(Head(names), x[Head(names)])
          THEN <<Warning(Head(names), x[Head(names)])>> ELSE <<>>)
         \o WarningsOf(Tail(names), x)

\* returns (is_valid, warnings)
validate_input_parameters(x) ==
    [is_valid |-> (Len(WarningsOf(params_order, x)) = 0),
     warnings |-> WarningsOf(params_order, x)]

-----------------------------------------------------------------------------
(* Timestamps and file names of the model store *)

\* all clock readings <<date, time>>
Instants == {<<c \div TicksPerDay, c % TicksPerDay>> : c \in 0..MaxClock}

\* chronological order of clock readings
InstantLeq(a, b) == a[1] < b[1] \/ (a[1] = b[1] /\ a[2] <= b[2])

strftime_TimeFirst(c) == <<c[2], c[1]>>

\* datetime.now().strftime("%Y%m%d_%H%M%S"): the string YYYYMMDD_HHMMSS, here its
\* two zero-padded fields in the order of the format string
strftime(c) == <<c[1], c[2]>>

\* Python's < on two strings made of fields of equal width: lexicographic
RECURSIVE StrLess(_, _)
StrLess(a, b) ==
    IF a = <<>> THEN b # <<>>
    ELSE IF b = <<>> THEN FALSE
    ELSE IF Head(a) # Head(b) THEN Head(a) < Head(b)
    ELSE StrLess(Tail(a), Tail(b))

\* max() of a non-empty collection of strings
PyMax(S) == CHOOSE m \in S : \A s \in S : ~StrLess(m, s)

\* f"{model_dir}/<stem>{timestamp}<ext>"
FileName(stem, ts, ext) == [stem |-> stem, ts |-> ts, ext |-> ext]

ModelFile(ts) == FileName("water_quality_model_", ts, ".pkl")
ScalerFile(ts) == FileName("scaler_", ts, ".pkl")
ImputerFile(ts) == FileName("imputer_", ts, ".pkl")
MetadataFile(ts) == FileName("model_metadata_", ts, ".json")
ResultsFile(ts) == FileName("all_models_comparison_", ts, ".json")

\* f.startswith("water_quality_model_")
StartsWithModelPrefix(f) == f.stem = "water_quality_model_"

\* f.replace("water_quality_model_", "").replace(".pkl", "")
StripModelName(f) == f.ts

-----------------------------------------------------------------------------
(* What a training run hands to save_trained_model.  train.py is the caller in  *)
(* the repository; save_trained_model takes the results of any training, and    *)
(* predict_with_saved_model provides for a classifier without predict_proba, so *)
(* the store may hold one.                                                      *)

\* two of the candidate classifiers of train.py: the forest offers predict_proba,
\* SVC() (probability left False) does not
ModelNames == {"Random Forest", "SVM"}

ClassOf(name) == IF name = "Random Forest" THEN "RandomForestClassifier" ELSE "SVC"

HasPredictProba(model) == model.cls # "SVC"

\* the columns of the training frame, X.columns, as a pandas Index
DatasetColumns ==
    [index |-> <<"ph", "Hardness", "Solids", "Chloramines", "Sulfate",
                 "Conductivity", "Organic_carbon", "Trihalomethanes", "Turbidity">>]

\* results of run r in which classifier w scored best: name |-> model and accuracy
\* (accuracies are in percent)
TrainResults(r, w) ==
    [n \in ModelNames |->
        [model |-> [cls |-> ClassOf(n), run |-> r],
         accuracy |-> IF n = w THEN 70 + r ELSE 60 + r]]

\* best_model_name = max(results.keys(), key=lambda k: results[k]['accuracy'])
BestModelName(results) ==
    CHOOSE n \in DOMAIN results :
        \A m \in DOMAIN results : results[m].accuracy <= results[n].accuracy

\* the arguments of the call of save_trained_model at the end of run r
TrainArgs(r, w) ==
    [results |-> TrainResults(r, w),
     best_model_name |-> BestModelName(TrainResults(r, w)),
     scaler |-> [cls |-> "StandardScaler", run |-> r],
     imputer |-> [cls |-> "SimpleImputer", run |-> r],
     feature_names |-> DatasetColumns]

-----------------------------------------------------------------------------
(* save_trained_model *)

\* feature_names.tolist() if hasattr(feature_names, 'tolist') else list(feature_names)
ToList(feature_names) == feature_names.index

Pickle(obj) == [obj |-> obj, whole |-> TRUE]
Json(obj) == [obj |-> obj, whole |-> TRUE]

\* the metadata dictionary
MetadataOf(a, ts) ==
    [accuracy |-> a.results[a.best_model_name].accuracy,
     feature_names |-> ToList(a.feature_names),
     model_name |-> a.best_model_name,
     model_type |-> a.results[a.best_model_name].model.cls,
     training_date |-> ts,
     model_file |-> ModelFile(ts),
     scaler_file |-> ScalerFile(ts),
     imputer_file |-> ImputerFile(ts)]

\* all_results: name |-> accuracy and model type
AllResultsOf(a) ==
    [n \in DOMAIN a.results |->
        [accuracy |-> a.results[n].accuracy, model_type |-> a.results[n].model.cls]]

SaveWrites_ScalerAsImputer(a, ts) ==
    << <<ModelFile(ts), Pickle(a.results[a.best_model_name].model)>>,
       <<ScalerFile(ts), Pickle(a.imputer)>>,
       <<ImputerFile(ts), Pickle(a.scaler)>>,
       <<MetadataFile(ts), Json(MetadataOf(a, ts))>>,
       <<ResultsFile(ts), Json(AllResultsOf(a))>> >>

\* the files save_trained_model writes, in the order it writes them
SaveWrites(a, ts) ==
    << <<ModelFile(ts), Pickle(a.results[a.best_model_name].model)>>,
       <<ScalerFile(ts), Pickle(a.scaler)>>,
       <<ImputerFile(ts), Pickle(a.imputer)>>,
       <<MetadataFile(ts), Json(MetadataOf(a, ts))>>,
       <<ResultsFile(ts), Json(AllResultsOf(a))>> >>

\* the directory after the first k writes of ws; when torn, write k+1 was begun
\* and left a truncated file
DiskAfter(d, ws, k, torn) ==
    LET written == {ws[i][1] : i \in 1..k}
        tornName == IF torn THEN {ws[k + 1][1]} ELSE {}
        ContentOf(f) == (CHOOSE i \in 1..Len(ws) : ws[i][1] = f)
    IN [f \in DOMAIN d \cup written \cup tornName |->
            IF f \in written THEN ws[ContentOf(f)][2]
            ELSE IF f \in tornName THEN [ws[ContentOf(f)][2] EXCEPT !.whole = FALSE]
            ELSE d[f]]

-----------------------------------------------------------------------------
(* load_trained_model *)

Raise(exc, msg) == [ok |-> FALSE, exc |-> exc, msg |-> msg]
Return(v) == [ok |-> TRUE, value |-> v]

\* joblib.load(f) and open(f) + json.load: FileNotFoundError for a missing file,
\* another exception for a truncated one
ReadFile(d, f) ==
    IF f \notin DOMAIN d THEN Raise("FileNotFoundError", "No such file")
    ELSE IF ~d[f].whole THEN Raise("Exception", "truncated file")
    ELSE Return(d[f].obj)

Assemble_GenericClauseFirst(model, scaler, imputer, metadata) ==
    IF model.ok /\ scaler.ok /\ imputer.ok /\ metadata.ok
    THEN Return([none |-> FALSE,
                 model |-> model.value, scaler |-> scaler.value,
                 imputer |-> imputer.value, metadata |-> metadata.value])
    ELSE Raise("Exception", "Error loading model")

\* the outcome of the try block from the outcomes of its four reads: the first
\* failure decides the exception
Assemble(model, scaler, imputer, metadata) ==
    IF model.ok /\ scaler.ok /\ imputer.ok /\ metadata.ok
    THEN Return([none |-> FALSE,
                 model |-> model.value, scaler |-> scaler.value,
                 imputer |-> imputer.value, metadata |-> metadata.value])
    ELSE IF (IF ~model.ok THEN model
             ELSE IF ~scaler.ok THEN scaler
             ELSE IF ~imputer.ok THEN imputer
             ELSE metadata).exc = "FileNotFoundError"
         THEN Raise("FileNotFoundError", "Required model file not found")
         ELSE Raise("Exception", "Error loading model")

\* the try block: the model, scaler, imputer and metadata files are read in order
ReadComponents(d, tsModel, tsScaler, tsImputer, tsMetadata) ==
    Assemble(ReadFile(d, ModelFile(tsModel)), ReadFile(d, ScalerFile(tsScaler)),
             ReadFile(d, ImputerFile(tsImputer)), ReadFile(d, MetadataFile(tsMetadata)))

MostRecentTimestamp_Complete(d) ==
    IF \E f \in DOMAIN d : StartsWithModelPrefix(f) /\ MetadataFile(f.ts) \in DOMAIN d
    THEN PyMax({StripModelName(f) : f \in {g \in DOMAIN d : StartsWithModelPrefix(g)
                                                       /\ MetadataFile(g.ts) \in DOMAIN d}})
    ELSE PyMax({StripModelName(f) : f \in {g \in DOMAIN d : StartsWithModelPrefix(g)}})

\* the timestamp chosen when none is given: the greatest among the model files
MostRecentTimestamp(d) ==
    PyMax({StripModelName(f) : f \in {g \in DOMAIN d : StartsWithModelPrefix(g)}})

\* the model files of the directory: [f for f in os.listdir(model_dir) if ...]
ModelFiles(d) == {f \in DOMAIN d : StartsWithModelPrefix(f)}

LoadAt_ScalerOfOldest(d, timestamp) ==
    IF timestamp.none
    THEN ReadComponents(d, MostRecentTimestamp(d),
                        CHOOSE m \in {StripModelName(f) : f \in ModelFiles(d)} :
                            \A o \in {StripModelName(f) : f \in ModelFiles(d)} : ~StrLess(o, m),
                        MostRecentTimestamp(d), MostRecentTimestamp(d))
    ELSE ReadComponents(d, timestamp.ts, timestamp.ts, timestamp.ts, timestamp.ts)

\* the files of the timestamp that was given or, with None, of the most recent one
LoadAt(d, timestamp) ==
    IF timestamp.none
    THEN ReadComponents(d, MostRecentTimestamp(d), MostRecentTimestamp(d),
                        MostRecentTimestamp(d), MostRecentTimestamp(d))
    ELSE ReadComponents(d, timestamp.ts, timestamp.ts, timestamp.ts, timestamp.ts)

\* load_trained_model(model_dir, timestamp); timestamp is None or [none |-> FALSE, ts |-> ..]
load_trained_model(exists, d, timestamp) ==
    IF ~exists THEN Raise("FileNotFoundError", "Model directory not found")
    ELSE IF timestamp.none /\ ModelFiles(d) = {}
    THEN Raise("FileNotFoundError", "No saved models found")
    ELSE LoadAt(d, timestamp)

-----------------------------------------------------------------------------
(* list_saved_models *)

\* sorted(model_files): the names differ in their timestamp only
RECURSIVE SortedFiles(_)
SortedFiles(S) ==
    IF S = {} THEN <<>>
    ELSE <<CHOOSE f \in S : \A g \in S : ~StrLess(g.ts, f.ts)>>
         \o SortedFiles(S \ {CHOOSE f \in S : \A g \in S : ~StrLess(g.ts, f.ts)})

\* model_file.split("_")[-1].replace(".pkl", ""): what follows the last
\* underscore of the name, the time field of the timestamp
LastField(f) == <<f.ts[Len(f.ts)]>>

\* what the loop prints for a model file, r being the outcome of reading its
\* metadata file; a file that is there and cannot be parsed ends the listing
\* with the exception
ListedAs(f, timestamp, r) ==
    IF r.ok
    THEN [accuracy |-> r.value.accuracy, model_name |-> r.value.model_name, file |-> f, found |-> TRUE,
          raised |-> FALSE, date |-> timestamp]
    ELSE [accuracy |-> 0, model_name |-> "", file |-> f,
          found |-> FALSE, raised |-> (r.exc # "FileNotFoundError"), date |-> timestamp]

ListEntry(d, f) == ListedAs(f, LastField(f), ReadFile(d, MetadataFile(LastField(f))))

\* the entries printed for the files fs, in order, up to an exception
RECURSIVE ListEntries(_, _)
ListEntries(d, fs) ==
    IF fs = <<>> THEN <<>>
    ELSE IF ListEntry(d, Head(fs)).raised THEN <<ListEntry(d, Head(fs))>>
    ELSE <<ListEntry(d, Head(fs))>> \o ListEntries(d, Tail(fs))

\* list_saved_models(model_dir): what it prints
list_saved_models(exists, d) ==
    IF ~exists THEN [message |-> "Model directory not found", entries |-> <<>>]
    ELSE IF ModelFiles(d) = {} THEN [message |-> "No saved models found", entries |-> <<>>]
    ELSE [message |-> "Saved Water Quality Models:",
          entries |-> ListEntries(d, SortedFiles(ModelFiles(d)))]

-----------------------------------------------------------------------------
(* The persisted pipeline: predict_with_saved_model *)

\* the classifier on an input vector: the probability (in percent) it gives to
\* class 1.  The library decides it; any function of the classifier and the
\* vector that takes values on both sides of one half serves here.
ClassOneShare(model, x) == 25 * ((x["ph"] + x["turbidity"] + model.run) % 5)

\* model.predict(X)[0]
Predict(model, x) == IF ClassOneShare(model, x) > 50 THEN 1 ELSE 0

\* model.predict_proba(X)[0]: <<P(class 0), P(class 1)>>
PredictProba(model, x) == <<100 - ClassOneShare(model, x), ClassOneShare(model, x)>>

Call(op, obj) == [obj |-> obj, op |-> op]

PipelineCalls_ScalerFirst(mc) ==
    <<Call("scaler.transform", mc.scaler), Call("imputer.transform", mc.imputer),
      Call("model.predict", mc.model), Call("model.predict_proba", mc.model)>>

\* the library calls of one run, in order
PipelineCalls(mc) ==
    <<Call("imputer.transform", mc.imputer), Call("scaler.transform", mc.scaler),
      Call("model.predict", mc.model), Call("model.predict_proba", mc.model)>>

\* returns (prediction[0], probability[0]) or (prediction[0], None); raises
\* ValueError when the frame cannot take the saved column names
predict_with_saved_model(mc, x) ==
    IF Len(mc.metadata.feature_names) # Len(required_params)
    THEN [calls |-> <<>>, ok |-> FALSE, exc |-> "ValueError",
          msg |-> "Shape of passed values"]
    ELSE [calls |-> PipelineCalls(mc),
          ok |-> TRUE,
          prediction |-> Predict(mc.model, x),
          probability |-> IF HasPredictProba(mc.model)
                          THEN [none |-> FALSE, p |-> PredictProba(mc.model, x)]
                          ELSE None]

-----------------------------------------------------------------------------
(* predict.py: load_model and predictWaterQuality *)

\* the outcome of load_model when it had to call load_trained_model, which gave r
Loaded(mc, r) ==
    IF r.ok
    THEN [calls |-> <<Call("load_trained_model", None)>>, ok |-> TRUE, exc |-> "", msg |-> "",
          components |-> r.value]
    ELSE [calls |-> <<Call("load_trained_model", None)>>, ok |-> FALSE, exc |-> r.exc, msg |-> r.msg,
          components |-> mc]

load_model_Reload(mc, exists, d) == Loaded(mc, load_trained_model(exists, d, None))

\* load_model(): the cached components, loaded on first use.
\* Gives the call's outcome, the new value of _model_components and the calls made.
load_model(mc, exists, d) ==
    IF mc.none THEN Loaded(mc, load_trained_model(exists, d, None))
    ELSE [calls |-> <<>>, ok |-> TRUE, exc |-> "", msg |-> "", components |-> mc]

\* predictWaterQuality once load_model gave l and, when it succeeded,
\* predict_with_saved_model gave r
Predicted(l, r) ==
    IF ~l.ok
    THEN [calls |-> l.calls, ok |-> FALSE, exc |-> l.exc, msg |-> l.msg,
          components |-> l.components]
    ELSE IF ~r.ok
    THEN [calls |-> l.calls \o r.calls, ok |-> FALSE, exc |-> r.exc, msg |-> r.msg,
          components |-> l.components]
    ELSE [calls |-> l.calls \o r.calls, ok |-> TRUE, prediction |-> r.prediction,
          probability |-> r.probability, components |-> l.components]

PredictWith(l, x) ==
    Predicted(l, IF l.ok THEN predict_with_saved_model(l.components, x) ELSE l)

\* predictWaterQuality(ph, ..., turbidity): (prediction, probability)
predictWaterQuality(mc, exists, d, x) == PredictWith(load_model(mc, exists, d), x)

\* max(probability)
PyMaxPair(p) == IF p[1] >= p[2] THEN p[1] ELSE p[2]

OptFloat(v) == [none |-> FALSE, v |-> v]

\* the result dictionary of get_water_quality_prediction for the outcome r of
\* predictWaterQuality
Interpreted(r, x) ==
    IF ~r.ok THEN r
    ELSE [calls |-> r.calls,
          ok |-> TRUE,
          components |-> r.components,
          result |->
             [prediction |-> r.prediction,
              is_safe_to_drink |-> (r.prediction = 1),
              safety_status |-> IF r.prediction = 1 THEN "Safe to drink"
                                ELSE "Not safe to drink",
              confidence |-> IF r.probability.none THEN None
                             ELSE OptFloat(PyMaxPair(r.probability.p)),
              probability_safe |-> IF r.probability.none THEN None
                                   ELSE OptFloat(r.probability.p[2]),
              probability_not_safe |-> IF r.probability.none THEN None
                                       ELSE OptFloat(r.probability.p[1]),
              input_parameters |-> x]]

\* get_water_quality_prediction(..., return_details=True): runs the prediction
\* again and interprets it
get_water_quality_prediction(mc, exists, d, x) ==
    Interpreted(predictWaterQuality(mc, exists, d, x), x)

-----------------------------------------------------------------------------
(* main.py: POST /api/predict *)

\* a response: the HTTP status, the "error" field ("" on success) and the rest
Resp(status, error, body) ==
    [none |-> FALSE, status |-> status, error |-> error, body |-> body]

Handled(resp, mc, cs) == [response |-> resp, calls |-> cs, components |-> mc]

\* request.get_json(): None (the body is the JSON text null or, before Flask 2.1,
\* the content type is not JSON), an exception, or the parsed object:
\* key |-> JSON value or JAbsent
NoJson == [none |-> TRUE, raises |-> ""]

\* get_json() raises BadRequest: the content type is JSON and there is no body or
\* the body is not JSON text (since Flask 2.1 it also raises when the content
\* type is not JSON)
Unparsable == [none |-> TRUE, raises |-> "400 Bad Request"]
JsonObject(obj) == [none |-> FALSE, obj |-> obj]

\* the keys of a JSON object
Keys(obj) == {q \in DOMAIN obj : obj[q].t # "absent"}

\* not data
Falsy(data) == data.none \/ Keys(data.obj) = {}

missing_params_IgnoreOrder(obj) ==
    LET absent == {q \in ParamNames : q \notin Keys(obj)}
    IN FilterSeq(<<"chloramines", "conductivity", "hardness", "organic_carbon", "ph",
                   "solids", "sulfate", "trihalomethanes", "turbidity">>, absent)

\* [param for param in required_params if param not in data]
missing_params(obj) ==
    FilterSeq(required_params, {q \in ParamNames : q \notin Keys(obj)})

\* the parameters, in order, whose conversion fails
Unconvertible(obj) ==
    FilterSeq(required_params, {q \in ParamNames : ~PyFloat(obj[q]).ok})

\* the nine float(data[...]) conversions, made in order: the exception of the
\* first that fails, or the nine values
ExtractValues(obj) ==
    IF Unconvertible(obj) = <<>>
    THEN [ok |-> TRUE, exc |-> "", x |-> [q \in ParamNames |-> PyFloat(obj[q]).val]]
    ELSE [ok |-> FALSE, exc |-> PyFloat(obj[Head(Unconvertible(obj))]).exc,
          x |-> [q \in ParamNames |-> 0]]

PredictionPart_Inverted(prediction, probability) ==
    [is_safe_to_drink |-> (prediction = 0),
     safety_status |-> IF prediction = 1 THEN "Safe to drink" ELSE "Not safe to drink",
     confidence |-> IF probability.none THEN None
                    ELSE OptFloat(PyMaxPair(probability.p)),
     raw_prediction |-> prediction,
     probability_scores |->
        [not_safe |-> IF probability.none THEN None ELSE OptFloat(probability.p[1]),
         safe |-> IF probability.none THEN None ELSE OptFloat(probability.p[2])]]

\* response["prediction"]
PredictionPart(prediction, probability) ==
    [is_safe_to_drink |-> (prediction = 1),
     safety_status |-> IF prediction = 1 THEN "Safe to drink" ELSE "Not safe to drink",
     confidence |-> IF probability.none THEN None
                    ELSE OptFloat(PyMaxPair(probability.p)),
     raw_prediction |-> prediction,
     probability_scores |->
        [not_safe |-> IF probability.none THEN None ELSE OptFloat(probability.p[1]),
         safe |-> IF probability.none THEN None ELSE OptFloat(probability.p[2])]]

\* the except Exception clause at the end of the handler
PredictionFailed(msg) == Resp(500, "Prediction failed", [message |-> msg])

\* the end of the handler: the response is built from the validation v and the
\* first prediction; then the confidence is logged
Respond(v, first, second, x) ==
    IF ~second.ok
    THEN Handled(PredictionFailed(second.msg), second.components,
                 first.calls \o second.calls)
    ELSE IF first.probability.none
    \* logger.info(f"... {max(probability):.3f}") raises TypeError on None
    THEN Handled(PredictionFailed("'NoneType' object is not iterable"),
                 second.components, first.calls \o second.calls)
    ELSE Handled(Resp(200, "",
                      [prediction |-> PredictionPart(first.prediction, first.probability),
                       input_parameters |-> x,
                       validation |-> [is_valid |-> v.is_valid,
                                       warnings |-> v.warnings]]),
                 second.components, first.calls \o second.calls)

\* after the first prediction: predict again for the details
Detail(v, first, exists, d, x) ==
    IF ~first.ok
    THEN Handled(PredictionFailed(first.msg), first.components, first.calls)
    ELSE Respond(v, first, get_water_quality_prediction(first.components, exists, d, x), x)

\* from the validation on: validate, predict, predict again, respond
PredictAndRespond(mc, exists, d, x) ==
    Detail(validate_input_parameters(x), predictWaterQuality(mc, exists, d, x),
           exists, d, x)

\* the handler once the nine values were extracted (or not: e)
Extracted(mc, exists, d, e) ==
    IF ~e.ok /\ e.exc \in {"ValueError", "TypeError"}
    THEN Handled(Resp(400, "Invalid parameter values",
                      [message |-> "All parameters must be numeric values"]),
                 mc, <<>>)
    ELSE IF ~e.ok
    THEN Handled(PredictionFailed(e.exc), mc, <<>>)
    ELSE PredictAndRespond(mc, exists, d, e.x)

\* the handler after the model_loaded check
InspectAndPredict(mc, exists, d, data) ==
    IF data.none /\ data.raises # ""
    \* the exception of get_json() reaches the except Exception clause
    THEN Handled(PredictionFailed(data.raises), mc, <<>>)
    ELSE IF Falsy(data)
    THEN Handled(Resp(400, "No input data", [message |-> "Please provide JSON data"]),
                 mc, <<>>)
    ELSE IF missing_params(data.obj) # <<>>
    THEN Handled(Resp(400, "Missing parameters",
                      [missing_params |-> missing_params(data.obj),
                       required_parameters |-> required_params]),
                 mc, <<>>)
    ELSE Extracted(mc, exists, d, ExtractValues(data.obj))

ModelNotLoaded == Resp(503, "Model not loaded", [message |-> "not available"])

predict_water_quality_BodyFirst(ml, mc, exists, d, data) ==
    IF Falsy(data) \/ ml THEN InspectAndPredict(mc, exists, d, data)
    ELSE Handled(ModelNotLoaded, mc, <<>>)

\* predict_water_quality(): the response, the value _model_components is left
\* with, and the calls made
predict_water_quality(ml, mc, exists, d, data) ==
    IF ~ml THEN Handled(ModelNotLoaded, mc, <<>>)
    ELSE InspectAndPredict(mc, exists, d, data)

health_check_AlwaysLoaded(ml) == Resp(200, "", [model_loaded |-> TRUE, status |-> "healthy"])

\* GET /api/health
health_check(ml) == Resp(200, "", [model_loaded |-> ml, status |-> "healthy"])

\* GET /api/model-info: if _model_components and 'metadata' in _model_components
model_info(mc) ==
    IF ~mc.none
    THEN Resp(200, "", [accuracy |-> mc.metadata.accuracy,
                        feature_names |-> mc.metadata.feature_names,
                        model_name |-> mc.metadata.model_name,
                        model_type |-> mc.metadata.model_type,
                        training_date |-> mc.metadata.training_date,
                        status |-> "loaded"])
    ELSE Resp(200, "", [status |-> "not_loaded"])

\* GET /
home == Resp(200, "", [status |-> "running"])

\* GET /api/predict
predict_example == Resp(200, "", [required_parameters |-> required_params])

\* the routes answered without a request body
GetRoutes == {"GET /api/health", "GET /api/model-info", "GET /", "GET /api/predict"}

\* the handler of such a route
GetHandler(route, ml, mc) ==
    CASE route = "GET /api/health" -> health_check(ml)
      [] route = "GET /api/model-info" -> model_info(mc)
      [] route = "GET /" -> home
      [] route = "GET /api/predict" -> predict_example

Initialized_LoadedAnyway(l) ==
    [model_loaded |-> TRUE, calls |-> l.calls, components |-> l.components]

\* initialize_model(): the values of model_loaded and _model_components after it
Initialized(l) == [model_loaded |-> l.ok, calls |-> l.calls, components |-> l.components]

initialize_model(mc, exists, d) == Initialized(load_model(mc, exists, d))

-----------------------------------------------------------------------------
(* Request bodies *)

\* a key the handler does not know
ExtraKey == "sample_id"

\* what a key of the body may hold instead of its nominal value
AltKinds == {"below", "min", "above", "numstr", "bool", "null", "str", "absent"}

\* the nominal value of a parameter: its upper bound, as a JSON number
Nominal(q) == JNum(ranges[q][2])

AltValue(q, kind) ==
    CASE kind = "below" -> JNum(ranges[q][1] - 1)
      [] kind = "min" -> JNum(ranges[q][1])
      [] kind = "above" -> JNum(ranges[q][2] + 1)
      [] kind = "numstr" -> JNumStr(ranges[q][2] + 1)
      [] kind = "bool" -> JBool(1)
      [] kind = "null" -> JNull
      [] kind = "str" -> JStr
      [] kind = "absent" -> JAbsent

\* the body that deviates from the nominal one in the keys S: a parameter q of S
\* holds what f[q] says, and the extra key is present when it is in S
BodyOf(S, f) ==
    JsonObject([q \in ParamNames \cup {ExtraKey} |->
                   IF q = ExtraKey THEN (IF q \in S THEN JStr ELSE JAbsent)
                   ELSE IF q \in S THEN AltValue(q, f[q])
                   ELSE Nominal(q)])

DeviationSets ==
    {S \in SUBSET (ParamNames \cup {ExtraKey}) : Cardinality(S) <= MaxDeviations}

\* the JSON object {}
EmptyObject == JsonObject([q \in ParamNames \cup {ExtraKey} |-> JAbsent])

\* only hardness, turbidity and the extra key
SparseBody ==
    JsonObject([q \in ParamNames \cup {ExtraKey} |->
                   IF q \in {"hardness", "turbidity"} THEN Nominal(q)
                   ELSE IF q = ExtraKey THEN JStr ELSE JAbsent])

\* every parameter one above its range
AllAboveBody ==
    JsonObject([q \in ParamNames \cup {ExtraKey} |->
                   IF q = ExtraKey THEN JAbsent ELSE AltValue(q, "above")])

\* ph, solids, sulfate and turbidity one below their range, the others at the
\* lower bound
SomeBelowBody ==
    JsonObject([q \in ParamNames \cup {ExtraKey} |->
                   IF q = ExtraKey THEN JAbsent
                   ELSE IF q \in {"ph", "solids", "sulfate", "turbidity"}
                        THEN AltValue(q, "below")
                   ELSE AltValue(q, "min")])

\* ph true, hardness the string "1001", the others nominal
ConvertibleBody ==
    JsonObject([q \in ParamNames \cup {ExtraKey} |->
                   IF q = ExtraKey THEN JAbsent
                   ELSE IF q = "ph" THEN JBool(1)
                   ELSE IF q = "hardness" THEN AltValue(q, "numstr")
                   ELSE Nominal(q)])

\* ph true, solids a string that is no numeral, conductivity null
UnconvertibleBody ==
    JsonObject([q \in ParamNames \cup {ExtraKey} |->
                   IF q = ExtraKey THEN JAbsent
                   ELSE IF q = "ph" THEN JBool(1)
                   ELSE IF q = "solids" THEN JStr
                   ELSE IF q = "conductivity" THEN JNull
                   ELSE Nominal(q)])

\* bodies beside the deviating ones
SpecialBodies ==
    {NoJson, Unparsable, EmptyObject, SparseBody, AllAboveBody, SomeBelowBody, ConvertibleBody,
     UnconvertibleBody}

-----------------------------------------------------------------------------
(* water_quality_check.py: check_water_quality.  Values are in tenths. *)

\* what is typed at a prompt: a numeral, the text nan, or text that is no float
Numeral(v) == [v |-> v, t |-> "num"]
NanText == [v |-> 0, t |-> "nan"]
OtherText == [v |-> 0, t |-> "str"]

\* float(input(...)): a numeral gives its value, "nan" gives the float NaN,
\* other text raises ValueError
FloatOfInput(typed) ==
    CASE typed.t = "num" -> [ok |-> TRUE, val |-> [v |-> typed.v, nan |-> FALSE], exc |-> ""]
      [] typed.t = "nan" -> [ok |-> TRUE, val |-> [v |-> 0, nan |-> TRUE], exc |-> ""]
      [] typed.t = "str" -> [ok |-> FALSE, val |-> [v |-> 0, nan |-> FALSE], exc |-> "ValueError"]

\* a <= b and a > b on floats: every comparison with NaN is False
FloatLeq(a, b) == ~a.nan /\ ~b.nan /\ a.v <= b.v
FloatGreater(a, b) == ~a.nan /\ ~b.nan /\ a.v > b.v

Float(v) == [v |-> v, nan |-> FALSE]

\* the thresholds of the rules, in the order of the prompts; ph has two
thresholds ==
    [p \in ParamNames |->
        CASE p = "ph" -> <<65, 85>>
          [] p = "hardness" -> <<2000>>
          [] p = "solids" -> <<5000>>
          [] p = "chloramines" -> <<40>>
          [] p = "sulfate" -> <<2500>>
          [] p = "conductivity" -> <<5000>>
          [] p = "organic_carbon" -> <<100>>
          [] p = "trihalomethanes" -> <<800>>
          [] p = "turbidity" -> <<50>>]

\* the condition of the if statement of parameter p
RuleFires(p, value) ==
    IF p = "ph"
    THEN ~(FloatLeq(Float(thresholds[p][1]), value) /\ FloatLeq(value, Float(thresholds[p][2])))
    ELSE FloatGreater(value, Float(thresholds[p][1]))

\* safe = True, then the nine if statements from the i-th on
RECURSIVE ApplyRules(_, _, _)
ApplyRules(values, i, safe) ==
    IF i > Len(values) THEN safe
    ELSE ApplyRules(values, i + 1,
                    IF RuleFires(required_params[i], values[i]) THEN FALSE ELSE safe)

\* the line printed at the end
Verdict(values) == IF ApplyRules(values, 1, TRUE) THEN "POTABLE" ELSE "NOT POTABLE"

\* the run after the next prompt's text gave r: the except clause ends it, the
\* ninth value ends it with the verdict
AfterInput(c, typed, r) ==
    IF ~r.ok
    THEN [pc |-> "done", typed |-> Append(c.typed, typed), values |-> c.values,
          printed |-> "Invalid input"]
    ELSE IF Len(c.values) + 1 = Len(required_params)
    THEN [pc |-> "done", typed |-> Append(c.typed, typed), values |-> Append(c.values, r.val),
          printed |-> Verdict(Append(c.values, r.val))]
    ELSE [pc |-> "input", typed |-> Append(c.typed, typed), values |-> Append(c.values, r.val),
          printed |-> ""]

\* the script at its first prompt
AtFirstPrompt == [pc |-> "input", typed |-> <<>>, values |-> <<>>, printed |-> ""]

\* what the user types at the prompt of p: a value at a threshold or next to
\* it, nan, or a word
TypedAt(p) ==
    {Numeral(thresholds[p][i] + d) : i \in 1..Len(thresholds[p]), d \in {-1, 0, 1}}
        \cup {NanText, OtherText}

\* the text that is not odd: the last threshold itself
Plain(p) == Numeral(thresholds[p][Len(thresholds[p])])

-----------------------------------------------------------------------------
(* Actions: the model store *)

\* a request thread that handles no request
Idle == [pc |-> "idle", status |-> 0, route |-> "", used |-> <<>>]

Init ==
    /\ dirExists = FALSE
    /\ disk = [f \in {} |-> None]
    /\ now = <<0, 0>>
    /\ runs = 0
    /\ lastSave = None
    /\ handlers = [t \in 1..MaxThreads |-> Idle]
    /\ checker = AtFirstPrompt
    /\ crashes = 0
    /\ loadResult = None
    /\ listing = None
    /\ pc = "off"
    /\ model_loaded = FALSE
    /\ model_components = None
    /\ request = None
    /\ response = None
    /\ calls = <<>>

\* save_trained_model called by training run runs+1 when the clock reads t, with
\* classifier w the best; the call ends after k of its five writes (k = 5: it
\* returns), leaving write k+1 truncated when torn
SaveStep(t, w, k, torn) ==
    LET a == TrainArgs(runs + 1, w)
        ts == strftime(t)
    IN /\ InstantLeq(now, t)
       /\ dirExists' = TRUE
       /\ disk' = DiskAfter(disk, SaveWrites(a, ts), k, torn)
       /\ now' = t
       /\ runs' = runs + 1
       /\ lastSave' = [none |-> FALSE, ts |-> ts, written |-> k, args |-> a,
                       complete |-> (k = 5)]
       /\ loadResult' = None
       /\ listing' = None

\* save_trained_model runs to its end
SaveTrainedModel(t, w) ==
    /\ runs < MaxSaves
    /\ SaveStep(t, w, 5, FALSE)
    /\ UNCHANGED <<crashes, serverVars, exchangeVars, handlers, checker>>

\* the process is killed inside save_trained_model
SaveInterrupted(t, w, k, torn) ==
    /\ runs < MaxSaves
    /\ crashes < MaxCrashes
    /\ SaveStep(t, w, k, torn)
    /\ crashes' = crashes + 1
    /\ UNCHANGED <<serverVars, exchangeVars, handlers, checker>>

\* a script calls load_trained_model(timestamp=arg)
ScriptLoad(arg) ==
    /\ loadResult' = [none |-> FALSE, timestamp |-> arg,
                      result |-> load_trained_model(dirExists, disk, arg)]
    /\ listing' = None
    /\ UNCHANGED <<storeVars, serverVars, exchangeVars, handlers, checker>>

\* a script calls list_saved_models()
ScriptList ==
    /\ listing' = [none |-> FALSE, lines |-> list_saved_models(dirExists, disk)]
    /\ loadResult' = None
    /\ UNCHANGED <<storeVars, serverVars, exchangeVars, handlers, checker>>

\* the timestamps of the files in the directory
TimestampsOnDisk == {f.ts : f \in DOMAIN disk}

\* the timestamp argument of such a call: none, the timestamp of a file in the
\* directory, or the one of the last save, which may have written nothing
TimestampArgs ==
    {None} \cup {[none |-> FALSE, ts |-> ts] : ts \in TimestampsOnDisk \cup {strftime(now)}}

NextStore ==
    \/ \E t \in Instants, w \in ModelNames : SaveTrainedModel(t, w)
    \/ \E t \in Instants, w \in ModelNames, k \in 0..4, torn \in BOOLEAN :
          SaveInterrupted(t, w, k, torn)
    \/ \E arg \in TimestampArgs : ScriptLoad(arg)
    \/ ScriptList

SpecStore == Init /\ [][NextStore]_vars

-----------------------------------------------------------------------------
(* Actions: the server *)

\* a training script calls save_trained_model and the call returns; one call a
\* day, made while the server answers no request
SaveRun(w) ==
    /\ runs < MaxTrainRuns
    /\ request.none
    /\ SaveStep(<<runs + 1, 0>>, w, 5, FALSE)
    /\ UNCHANGED <<crashes, serverVars, exchangeVars, handlers, checker>>

\* the server's variables after initialize_model gave i
Started(i) ==
    /\ model_loaded' = i.model_loaded
    /\ model_components' = i.components

\* python main.py: initialize_model(), then app.run()
StartMain ==
    /\ pc = "off"
    /\ Started(initialize_model(model_components, dirExists, disk))
    /\ pc' = "serving"
    /\ UNCHANGED <<storeVars, scriptVars, exchangeVars, handlers, checker>>

\* the app object imported by a WSGI server: the __main__ block does not run
StartImported ==
    /\ pc = "off"
    /\ pc' = "serving"
    /\ UNCHANGED <<storeVars, scriptVars, model_loaded, model_components, exchangeVars, handlers, checker>>

\* the exchange and the cache after the handler gave h
Answered(route, data, h) ==
    /\ request' = [none |-> FALSE, data |-> data, route |-> route]
    /\ response' = h.response
    /\ model_components' = h.components
    /\ calls' = h.calls

PostPredict_Retry(data) ==
    /\ pc = "serving"
    /\ request.none
    /\ Answered("POST /api/predict", data,
                predict_water_quality(
                    initialize_model(model_components, dirExists, disk).model_loaded,
                    initialize_model(model_components, dirExists, disk).components,
                    dirExists, disk, data))
    /\ model_loaded' = initialize_model(model_components, dirExists, disk).model_loaded
    /\ UNCHANGED <<storeVars, scriptVars, pc, handlers, checker>>

\* POST /api/predict with get_json() giving data
PostPredict(data) ==
    /\ pc = "serving"
    /\ request.none
    /\ Answered("POST /api/predict", data,
                predict_water_quality(model_loaded, model_components, dirExists, disk,
                                      data))
    /\ UNCHANGED <<storeVars, scriptVars, pc, model_loaded, handlers, checker>>

\* a GET route is answered; none of the handlers assigns a global
Get(route) ==
    /\ pc = "serving"
    /\ request.none
    /\ Answered(route, NoJson,
                Handled(GetHandler(route, model_loaded, model_components),
                        model_components, <<>>))
    /\ UNCHANGED <<storeVars, scriptVars, pc, model_loaded, handlers, checker>>

\* the response is sent; the server is idle again
Deliver ==
    /\ ~request.none
    /\ request' = None
    /\ response' = None
    /\ calls' = <<>>
    /\ UNCHANGED <<storeVars, scriptVars, serverVars, handlers, checker>>

Next ==
    \/ \E w \in ModelNames : SaveRun(w)
    \/ StartMain
    \/ StartImported
    \/ \E S \in DeviationSets : \E f \in [S \ {ExtraKey} -> AltKinds] :
          PostPredict(BodyOf(S, f))
    \/ \E data \in SpecialBodies : PostPredict(data)
    \/ \E route \in GetRoutes : Get(route)
    \/ Deliver

Spec == Init /\ [][Next]_vars

-----------------------------------------------------------------------------
(* Actions: the threaded server.  app.run() serves each request in a thread of *)
(* its own; a handler is a sequence of steps, one for each read or write of a  *)
(* global, and the steps of the threads interleave.                            *)

Threads == 1..MaxThreads

\* nine values in range, the ones every thread's request carries
NominalValues == [q \in ParamNames |-> ranges[q][2]]

\* thread t goes to position h
Moves(t, h) == handlers' = [handlers EXCEPT ![t] = h]

\* a request for route arrives and thread t is given it
Receive(t, route) ==
    /\ pc = "serving"
    /\ handlers[t].pc = "idle"
    /\ Moves(t, [pc |-> "entered", status |-> 0, route |-> route, used |-> <<>>])
    /\ UNCHANGED <<storeVars, scriptVars, serverVars, exchangeVars, checker>>

\* a GET handler runs: it reads model_loaded or _model_components
AnswerGet(t) ==
    /\ handlers[t].pc = "entered"
    /\ handlers[t].route \in GetRoutes
    /\ Moves(t, [handlers[t] EXCEPT
                    !.pc = "done",
                    !.status = GetHandler(handlers[t].route, model_loaded,
                                          model_components).status])
    /\ UNCHANGED <<storeVars, scriptVars, serverVars, exchangeVars, checker>>

\* predict_water_quality: if not model_loaded
ReadModelLoaded(t) ==
    /\ handlers[t].pc = "entered"
    /\ handlers[t].route = "POST /api/predict"
    /\ Moves(t, IF model_loaded THEN [handlers[t] EXCEPT !.pc = "load_model"]
                ELSE [handlers[t] EXCEPT !.pc = "done", !.status = ModelNotLoaded.status])
    /\ UNCHANGED <<storeVars, scriptVars, serverVars, exchangeVars, checker>>

\* load_model, a step for each access of _model_components: the test
\* "if _model_components is None" with the return of the cached value, and, for
\* a thread that saw None, the assignment "_model_components = load_trained_model()"
LoadModel(t) ==
    /\ handlers[t].pc \in {"load_model", "load_trained_model"}
    /\ IF handlers[t].pc = "load_model"
       THEN /\ Moves(t, IF model_components.none
                        THEN [handlers[t] EXCEPT !.pc = "load_trained_model"]
                        ELSE [handlers[t] EXCEPT
                                 !.pc = "predict",
                                 !.used = Append(handlers[t].used, model_components)])
            /\ UNCHANGED model_components
       ELSE /\ model_components' =
                  Loaded(model_components,
                         load_trained_model(dirExists, disk, None)).components
            /\ Moves(t, IF load_trained_model(dirExists, disk, None).ok
                        THEN [handlers[t] EXCEPT
                                 !.pc = "predict",
                                 !.used = Append(handlers[t].used,
                                                 load_trained_model(dirExists, disk,
                                                                    None).value)]
                        ELSE [handlers[t] EXCEPT
                                 !.pc = "done", !.status = PredictionFailed("").status])
    /\ UNCHANGED <<storeVars, scriptVars, pc, model_loaded, exchangeVars, checker>>

\* the pipeline runs on the components load_model returned: first for
\* predictWaterQuality, then for get_water_quality_prediction, then the response
RunPipeline(t) ==
    /\ handlers[t].pc = "predict"
    /\ Moves(t, IF Len(handlers[t].used) = 1
                THEN [handlers[t] EXCEPT !.pc = "load_model"]
                ELSE [handlers[t] EXCEPT
                         !.pc = "done",
                         !.status =
                            Respond(validate_input_parameters(NominalValues),
                                    PredictWith(load_model(handlers[t].used[1], dirExists, disk),
                                                NominalValues),
                                    Interpreted(
                                        PredictWith(load_model(handlers[t].used[2], dirExists,
                                                               disk), NominalValues),
                                        NominalValues),
                                    NominalValues).response.status])
    /\ UNCHANGED <<storeVars, scriptVars, serverVars, exchangeVars, checker>>

\* the response of thread t is sent
Finish(t) ==
    /\ handlers[t].pc = "done"
    /\ Moves(t, Idle)
    /\ UNCHANGED <<storeVars, scriptVars, serverVars, exchangeVars, checker>>

NextThreaded ==
    \/ \E w \in ModelNames : SaveRun(w)
    \/ StartMain
    \/ StartImported
    \/ \E t \in Threads, route \in GetRoutes \cup {"POST /api/predict"} : Receive(t, route)
    \/ \E t \in Threads : AnswerGet(t)
    \/ \E t \in Threads : ReadModelLoaded(t)
    \/ \E t \in Threads : LoadModel(t)
    \/ \E t \in Threads : RunPipeline(t)
    \/ \E t \in Threads : Finish(t)

SpecThreaded == Init /\ [][NextThreaded]_vars

-----------------------------------------------------------------------------
(* Actions: a script that imports predict.py and calls it, as test_prediction *)
(* does.  The process keeps its _model_components from call to call, while    *)
(* training scripts save new sets.                                            *)

\* the vectors the script passes: the lower and the upper bounds
ClientVectors == {[q \in ParamNames |-> ranges[q][i]] : i \in 1..2}

\* a training script is killed inside save_trained_model, while the script
\* that predicts is between two calls
SaveRunInterrupted(w, k, torn) ==
    /\ runs < MaxTrainRuns
    /\ crashes < MaxCrashes
    /\ request.none
    /\ SaveStep(<<runs + 1, 0>>, w, k, torn)
    /\ crashes' = crashes + 1
    /\ UNCHANGED <<serverVars, exchangeVars, handlers, checker>>

\* the call and the cache once the function gave l
Called(fn, l) ==
    /\ request' = [none |-> FALSE, data |-> NoJson, route |-> fn]
    /\ response' = l
    /\ model_components' = l.components
    /\ calls' = l.calls

\* components = load_model()
ClientLoadModel ==
    /\ request.none
    /\ Called("load_model", load_model(model_components, dirExists, disk))
    /\ UNCHANGED <<storeVars, scriptVars, pc, model_loaded, handlers, checker>>

\* prediction, probability = predictWaterQuality(...)
ClientPredict(x) ==
    /\ request.none
    /\ Called("predictWaterQuality", predictWaterQuality(model_components, dirExists, disk, x))
    /\ UNCHANGED <<storeVars, scriptVars, pc, model_loaded, handlers, checker>>

\* the call has returned or raised; the script goes on
ClientReturn ==
    /\ ~request.none
    /\ request' = None
    /\ response' = None
    /\ calls' = <<>>
    /\ UNCHANGED <<storeVars, scriptVars, serverVars, handlers, checker>>

NextClient ==
    \/ \E w \in ModelNames : SaveRun(w)
    \/ \E w \in ModelNames, k \in 0..4, torn \in BOOLEAN : SaveRunInterrupted(w, k, torn)
    \/ ClientLoadModel
    \/ \E x \in ClientVectors : ClientPredict(x)
    \/ ClientReturn

SpecClient == Init /\ [][NextClient]_vars

-----------------------------------------------------------------------------
(* Actions: python water_quality_check.py *)

\* the number of prompts answered with something else than the plain text
OddInputs(typed) ==
    Cardinality({i \in 1..Len(typed) : typed[i] # Plain(required_params[i])})

\* the user answers the next prompt
Enter(typed) ==
    /\ checker.pc = "input"
    /\ typed \in TypedAt(required_params[Len(checker.typed) + 1])
    /\ OddInputs(Append(checker.typed, typed)) <= MaxOddInputs
    /\ checker' = AfterInput(checker, typed, FloatOfInput(typed))
    /\ UNCHANGED <<storeVars, scriptVars, serverVars, exchangeVars, handlers>>

\* the script is run again
RunAgain ==
    /\ checker.pc = "done"
    /\ checker' = AtFirstPrompt
    /\ UNCHANGED <<storeVars, scriptVars, serverVars, exchangeVars, handlers>>

NextChecker ==
    \/ \E p \in ParamNames : \E typed \in TypedAt(p) : Enter(typed)
    \/ RunAgain

SpecChecker == Init /\ [][NextChecker]_vars

-----------------------------------------------------------------------------
(* Properties of POST /api/predict *)

\* a POST /api/predict was answered and its response is not sent yet
PredictAnswered == ~request.none /\ request.route = "POST /api/predict"

\* the body of that request is a JSON object holding all nine parameters
AllNinePresent ==
    /\ PredictAnswered
    /\ ~request.data.none
    /\ \A q \in ParamNames : request.data.obj[q].t # "absent"

\* ... each of them a JSON number
AllNineNumbers ==
    /\ AllNinePresent
    /\ \A q \in ParamNames : request.data.obj[q].t = "num"

\* the nine numbers the body holds
RequestValues == [q \in ParamNames |-> request.data.obj[q].v]

\* the nine parameters in the order the documentation names them
NineNamed ==
    <<"ph", "hardness", "solids", "chloramines", "sulfate", "conductivity",
      "organic_carbon", "trihalomethanes", "turbidity">>

\* the documented inclusive range of each parameter
DocumentedRange(p) ==
    CASE p = "ph" -> <<0, 14>>
      [] p = "hardness" -> <<0, 1000>>
      [] p = "solids" -> <<0, 100000>>
      [] p = "chloramines" -> <<0, 20>>
      [] p = "sulfate" -> <<0, 1000>>
      [] p = "conductivity" -> <<0, 2000>>
      [] p = "organic_carbon" -> <<0, 50>>
      [] p = "trihalomethanes" -> <<0, 200>>
      [] p = "turbidity" -> <<0, 20>>

\* the parameters of the request whose value lies outside the documented range
OutsideDocumented ==
    {q \in ParamNames : RequestValues[q] < DocumentedRange(q)[1]
                        \/ RequestValues[q] > DocumentedRange(q)[2]}

PositionIn(names, q) == CHOOSE i \in 1..Len(names) : names[i] = q

\* s lists the members of S, each once, in the order they have in names
ListsInOrder(s, S, names) ==
    /\ Len(s) = Cardinality(S)
    /\ {s[i] : i \in 1..Len(s)} = S
    /\ \A i, j \in 1..Len(s) : i < j => PositionIn(names, s[i]) < PositionIn(names, s[j])

\* the pipeline was run for the request
PipelineRun == \E i \in 1..Len(calls) : calls[i].op = "model.predict"

\* C1: a request made while the model is loaded whose nine values are numbers is
\* not rejected for a value outside its range: the pipeline is run and the
\* response is the 200 one carrying the prediction, with validation.is_valid
\* false exactly when a value is out of range and one warning per such value.
C1_RangeValidationNonFatal ==
    (AllNineNumbers /\ model_loaded) =>
        /\ response.status = 200
        /\ PipelineRun
        /\ response.body.prediction.raw_prediction \in {0, 1}
        /\ response.body.validation.is_valid = (OutsideDocumented = {})
        /\ Len(response.body.validation.warnings) = Cardinality(OutsideDocumented)

\* C2: with the model loaded and a non-empty body, a missing parameter gives
\* 400 'Missing parameters' naming exactly the missing ones in the order of the
\* required list, and no prediction is run; a body holding the nine is never
\* answered so, whatever other keys it has.
C2_MissingParameters ==
    (PredictAnswered /\ model_loaded /\ ~Falsy(request.data)) =>
        IF \E q \in ParamNames : request.data.obj[q].t = "absent"
        THEN /\ response.status = 400
             /\ response.error = "Missing parameters"
             /\ ListsInOrder(response.body.missing_params,
                             {q \in ParamNames : request.data.obj[q].t = "absent"},
                             NineNamed)
             /\ calls = <<>>
        ELSE response.error # "Missing parameters"

\* a body with hardness, turbidity and an unknown key was answered
C2_Witness ==
    /\ PredictAnswered
    /\ model_loaded
    /\ request.data = SparseBody
    /\ response.status = 400
    /\ response.body.missing_params =
          <<"ph", "solids", "chloramines", "sulfate", "conductivity",
            "organic_carbon", "trihalomethanes">>

\* C3: the fields of a 200 response agree with each other and with the
\* classifier: raw_prediction is the label 0 or 1, is_safe_to_drink and
\* safety_status say whether it is 1, probability_scores are the class
\* probabilities, confidence is the larger one, input_parameters the parsed values.
C3_ResponseConsistent ==
    (PredictAnswered /\ response.status = 200) =>
        /\ response.body.prediction.raw_prediction \in {0, 1}
        /\ response.body.prediction.raw_prediction =
              Predict(model_components.model, RequestValues)
        /\ response.body.prediction.is_safe_to_drink =
              (response.body.prediction.raw_prediction = 1)
        /\ response.body.prediction.safety_status =
              (IF response.body.prediction.raw_prediction = 1
               THEN "Safe to drink" ELSE "Not safe to drink")
        /\ ~response.body.prediction.probability_scores.not_safe.none
        /\ ~response.body.prediction.probability_scores.safe.none
        /\ response.body.prediction.probability_scores.not_safe.v =
              PredictProba(model_components.model, RequestValues)[1]
        /\ response.body.prediction.probability_scores.safe.v =
              PredictProba(model_components.model, RequestValues)[2]
        /\ ~response.body.prediction.confidence.none
        /\ response.body.prediction.confidence.v \in
              {response.body.prediction.probability_scores.not_safe.v,
               response.body.prediction.probability_scores.safe.v}
        /\ response.body.prediction.confidence.v >=
              response.body.prediction.probability_scores.not_safe.v
        /\ response.body.prediction.confidence.v >=
              response.body.prediction.probability_scores.safe.v
        /\ response.body.input_parameters = RequestValues

\* a 200 response for water the classifier calls safe
C3_Witness ==
    /\ PredictAnswered
    /\ response.status = 200
    /\ response.body.prediction.raw_prediction = 1
    /\ response.body.prediction.probability_scores.safe.v >
          response.body.prediction.probability_scores.not_safe.v

\* C4: validate_input_parameters on the nine numbers of a request gives one
\* warning for each value outside its inclusive documented range, in the fixed
\* parameter order, each naming the parameter, the value and the range; is_valid
\* holds exactly when there is no warning (so a value on a bound gives none);
\* this is the validation a 200 response carries.
C4_ValidateInputParameters ==
    AllNineNumbers =>
        /\ ListsInOrder([i \in 1..Len(validate_input_parameters(RequestValues).warnings) |->
                            validate_input_parameters(RequestValues).warnings[i].param],
                        OutsideDocumented, NineNamed)
        /\ \A i \in 1..Len(validate_input_parameters(RequestValues).warnings) :
              /\ validate_input_parameters(RequestValues).warnings[i].value =
                    RequestValues[validate_input_parameters(RequestValues).warnings[i].param]
              /\ validate_input_parameters(RequestValues).warnings[i].min =
                    DocumentedRange(validate_input_parameters(RequestValues).warnings[i].param)[1]
              /\ validate_input_parameters(RequestValues).warnings[i].max =
                    DocumentedRange(validate_input_parameters(RequestValues).warnings[i].param)[2]
        /\ validate_input_parameters(RequestValues).is_valid =
              (validate_input_parameters(RequestValues).warnings = <<>>)
        /\ (response.status = 200 =>
               /\ response.body.validation.is_valid =
                     validate_input_parameters(RequestValues).is_valid
               /\ response.body.validation.warnings =
                     validate_input_parameters(RequestValues).warnings)

\* four values below their range, the five others on the lower bound
C4_Witness ==
    /\ PredictAnswered
    /\ request.data = SomeBelowBody
    /\ response.status = 200
    /\ ~response.body.validation.is_valid
    /\ Len(response.body.validation.warnings) = 4
    /\ response.body.validation.warnings[1].param = "ph"
    /\ response.body.validation.warnings[4].param = "turbidity"

\* the four components of the saved set ts are imputer i, scaler sc, classifier m
\* and the cached metadata
SavedSetHolds(ts, i, sc, m) ==
    /\ {ImputerFile(ts), ScalerFile(ts), ModelFile(ts), MetadataFile(ts)} \subseteq DOMAIN disk
    /\ disk[ImputerFile(ts)].obj = i
    /\ disk[ScalerFile(ts)].obj = sc
    /\ disk[ModelFile(ts)].obj = m
    /\ disk[MetadataFile(ts)].obj = model_components.metadata

\* C5: every run of the pipeline for a request calls imputer.transform, then
\* scaler.transform, then the classifier's predict, none left out, and the objects
\* called, with the metadata in use, are the four components of one saved set.
C5_PipelineOrderOneSet ==
    (PredictAnswered /\ calls # <<>>) =>
        /\ Len(calls) % 4 = 0
        /\ \A k \in 0..((Len(calls) \div 4) - 1) :
              /\ calls[4 * k + 1].op = "imputer.transform"
              /\ calls[4 * k + 2].op = "scaler.transform"
              /\ calls[4 * k + 3].op = "model.predict"
              /\ calls[4 * k + 4].op = "model.predict_proba"
        /\ \E ts \in TimestampsOnDisk :
              \A k \in 0..((Len(calls) \div 4) - 1) :
                 SavedSetHolds(ts, calls[4 * k + 1].obj, calls[4 * k + 2].obj,
                               calls[4 * k + 3].obj)

\* a request was predicted while the directory holds two saved sets
C5_Witness ==
    /\ PredictAnswered
    /\ response.status = 200
    /\ Len(calls) = 8
    /\ Cardinality(ModelFiles(disk)) = 2

\* the response is the 400 for values that are not numeric, and nothing was predicted
InvalidParameterValues ==
    /\ response.status = 400
    /\ response.error = "Invalid parameter values"
    /\ calls = <<>>

\* C6 as stated: with the model loaded and the nine keys present, a value that is
\* not a JSON number (a string, a boolean or null) gives 400 'Invalid parameter
\* values' and no prediction.
C6_NonNumberRejected ==
    (AllNinePresent /\ model_loaded
       /\ \E q \in ParamNames : request.data.obj[q].t # "num")
    => InvalidParameterValues

\* C6: with the model loaded and the nine keys present, the answer is 400
\* 'Invalid parameter values', with no prediction run, exactly when some value is
\* null or a string that is not a numeral; booleans and numeral strings are
\* converted (true to 1, "1001" to 1001) and the request is predicted.
C6_UnconvertibleRejected ==
    (AllNinePresent /\ model_loaded) =>
        /\ InvalidParameterValues <=>
              (\E q \in ParamNames : request.data.obj[q].t \in {"null", "str"})
        /\ (\A q \in ParamNames : request.data.obj[q].t \in {"num", "numstr", "bool"})
              => PipelineRun
        /\ response.status = 200 => response.body.input_parameters = RequestValues

\* a body with ph true and hardness "1001" was predicted
C6_Witness ==
    /\ AllNinePresent
    /\ model_loaded
    /\ request.data.obj["ph"].t = "bool"
    /\ request.data.obj["hardness"].t = "numstr"
    /\ response.status = 200
    /\ response.body.input_parameters["ph"] = 1
    /\ response.body.input_parameters["hardness"] = 1001

\* C7: while model_loaded is false a POST /api/predict is answered 503 'Model not
\* loaded' whatever its body; nothing is predicted, no load is attempted and the
\* cache stays empty.
C7_NotLoaded503 ==
    (PredictAnswered /\ ~model_loaded) =>
        /\ response.status = 503
        /\ response.error = "Model not loaded"
        /\ calls = <<>>
        /\ model_components.none

\* a request with nine numbers in range was answered 503
C7_Witness ==
    /\ AllNineNumbers
    /\ OutsideDocumented = {}
    /\ ~model_loaded
    /\ response.status = 503

\* C8: model_loaded changes only in the step that starts the process with
\* initialize_model; while the server runs it keeps its value, true or false, and
\* a server running with model_loaded false answers every POST /api/predict 503,
\* whatever the directory holds by then.
C8_NoRetry ==
    [][/\ (model_loaded' # model_loaded) => (pc = "off" /\ pc' = "serving")
       /\ (pc = "serving") => (model_loaded' = model_loaded)
       /\ model_loaded => model_loaded'
       /\ (pc' = "serving" /\ ~model_loaded' /\ PredictAnswered')
             => response'.status = 503]_vars

\* a complete set is in the directory, and the server, started before, answers 503
C8_Witness ==
    /\ pc = "serving"
    /\ ~model_loaded
    /\ load_trained_model(dirExists, disk, None).ok
    /\ PredictAnswered
    /\ response.status = 503

-----------------------------------------------------------------------------
(* Properties of the model store *)

\* a script called load_trained_model() with no timestamp, after the last save
LoadedWithNone == ~loadResult.none /\ loadResult.timestamp.none

\* the clock readings at which a model file in the directory was named
ModelInstants == {t \in Instants : ModelFile(strftime(t)) \in DOMAIN disk}

\* the latest of them
LatestModelInstant ==
    CHOOSE t \in ModelInstants : \A u \in ModelInstants : InstantLeq(u, t)

\* the four files load_trained_model reads for timestamp ts are there and whole
SetReadable(ts) ==
    \A f \in {ModelFile(ts), ScalerFile(ts), ImputerFile(ts), MetadataFile(ts)} :
        f \in DOMAIN disk /\ disk[f].whole

\* C9: load_trained_model() without a timestamp reads the set whose model file
\* was named at the latest clock reading: what it returns are the contents of
\* that set's four files, it returns whenever they are readable, and after a
\* save that completed it is the set of that save.
C9_LoadsMostRecent ==
    (LoadedWithNone /\ ModelInstants # {}) =>
        /\ loadResult.result.ok =>
              /\ loadResult.result.value.model =
                    disk[ModelFile(strftime(LatestModelInstant))].obj
              /\ loadResult.result.value.scaler =
                    disk[ScalerFile(strftime(LatestModelInstant))].obj
              /\ loadResult.result.value.imputer =
                    disk[ImputerFile(strftime(LatestModelInstant))].obj
              /\ loadResult.result.value.metadata =
                    disk[MetadataFile(strftime(LatestModelInstant))].obj
        /\ SetReadable(strftime(LatestModelInstant)) => loadResult.result.ok
        /\ lastSave.complete =>
              /\ loadResult.result.ok
              /\ now = LatestModelInstant
              /\ loadResult.result.value.metadata.training_date = lastSave.ts

\* two sets saved, the second on a later day at an earlier hour; the second is loaded
C9_Witness ==
    /\ LoadedWithNone
    /\ ModelInstants = {<<0, 1>>, <<1, 0>>}
    /\ lastSave.complete
    /\ loadResult.result.ok
    /\ loadResult.result.value.model.run = 2

\* C10: after save_trained_model(results, best_model_name, scaler, imputer,
\* feature_names) completed, load_trained_model() returns that best model, that
\* scaler and that imputer, and metadata with model_name = best_model_name,
\* accuracy = results[best_model_name]['accuracy'] and feature_names the list of
\* the names in their order.
C10_SaveLoadRoundTrip ==
    (LoadedWithNone /\ ~lastSave.none /\ lastSave.complete) =>
        /\ loadResult.result.ok
        /\ loadResult.result.value.model =
              lastSave.args.results[lastSave.args.best_model_name].model
        /\ loadResult.result.value.scaler = lastSave.args.scaler
        /\ loadResult.result.value.imputer = lastSave.args.imputer
        /\ loadResult.result.value.metadata.model_name = lastSave.args.best_model_name
        /\ loadResult.result.value.metadata.accuracy =
              lastSave.args.results[lastSave.args.best_model_name].accuracy
        /\ loadResult.result.value.metadata.feature_names =
              lastSave.args.feature_names.index

\* the second save completed beside an older set, and its set was loaded
C10_Witness ==
    /\ LoadedWithNone
    /\ ~lastSave.none
    /\ lastSave.complete
    /\ runs = 2
    /\ Cardinality(ModelFiles(disk)) = 2
    /\ loadResult.result.ok
    /\ loadResult.result.value.scaler.run = 2
    /\ loadResult.result.value.metadata.model_name = "SVM"

\* the entry of the listing for model file f
EntryOf(f) ==
    listing.lines.entries[CHOOSE i \in 1..Len(listing.lines.entries) :
                             listing.lines.entries[i].file = f]

\* C11: list_saved_models prints one entry for every model file; for a set whose
\* metadata file is in the directory the entry gives the model name and the
\* accuracy of that metadata and the set's timestamp as the date, and 'Metadata
\* not found' is printed only for a model file whose metadata file is absent.
C11_ListsSavedModels ==
    ~listing.none =>
        \A f \in ModelFiles(disk) :
            /\ \E i \in 1..Len(listing.lines.entries) : listing.lines.entries[i].file = f
            /\ EntryOf(f).found = (MetadataFile(f.ts) \in DOMAIN disk)
            /\ (MetadataFile(f.ts) \in DOMAIN disk /\ disk[MetadataFile(f.ts)].whole) =>
                  /\ EntryOf(f).model_name = disk[MetadataFile(f.ts)].obj.model_name
                  /\ EntryOf(f).accuracy = disk[MetadataFile(f.ts)].obj.accuracy
                  /\ EntryOf(f).date = f.ts

-----------------------------------------------------------------------------
(* More properties of the server *)

\* C12: with a loaded classifier that has no predict_proba,
\* predict_with_saved_model gives the label and None, and a request with nine
\* numbers in range is answered 200 with that label and with confidence and both
\* probability scores null.
C12_NoProbaStill200 ==
    (AllNineNumbers /\ OutsideDocumented = {} /\ model_loaded
       /\ ~HasPredictProba(model_components.model)) =>
        /\ predict_with_saved_model(model_components, RequestValues).ok
        /\ predict_with_saved_model(model_components, RequestValues).prediction \in {0, 1}
        /\ predict_with_saved_model(model_components, RequestValues).probability.none
        /\ response.status = 200
        /\ response.body.prediction.raw_prediction =
              predict_with_saved_model(model_components, RequestValues).prediction
        /\ response.body.prediction.confidence.none
        /\ response.body.prediction.probability_scores.not_safe.none
        /\ response.body.prediction.probability_scores.safe.none

\* C13: in the threaded server, whatever the interleaving of the handlers:
\* model_loaded implies that the cache is set, no thread ever reaches the call of
\* load_trained_model, no step taken while the server runs changes model_loaded or
\* _model_components, and every pipeline run of every request uses the cached set.
C13_NoCoordinationNeeded ==
    /\ [](model_loaded => ~model_components.none)
    /\ [](\A t \in Threads : handlers[t].pc # "load_trained_model")
    /\ [](\A t \in Threads : \A i \in 1..Len(handlers[t].used) :
             handlers[t].used[i] = model_components)
    /\ [][pc = "serving" =>
             (model_loaded' = model_loaded /\ model_components' = model_components)]_vars

\* two predictions in flight at once, one in its first pipeline run and one in
\* its second, while a later set is in the directory
C13_Witness ==
    /\ model_loaded
    /\ \E t, u \in Threads :
          /\ handlers[t].pc = "predict" /\ Len(handlers[t].used) = 1
          /\ handlers[u].pc = "predict" /\ Len(handlers[u].used) = 2
    /\ Cardinality(ModelFiles(disk)) = 2
    /\ load_trained_model(dirExists, disk, None).value # model_components

\* the request had no JSON body, or an empty one
AbsentOrEmptyBody == request.data.none \/ Keys(request.data.obj) = {}

\* C14: the checks of POST /api/predict decide the response in a fixed order:
\* model not loaded gives 503; then an absent or empty body gives 400 'No input
\* data'; then a missing parameter gives 400 'Missing parameters'; then a value
\* that cannot be converted gives 400 'Invalid parameter values'; nothing is
\* predicted in these cases, and a request that passes the four is predicted.
C14_ChecksInOrder ==
    PredictAnswered =>
        IF ~model_loaded
        THEN response.status = 503 /\ calls = <<>>
        ELSE IF AbsentOrEmptyBody
        THEN response.status = 400 /\ response.error = "No input data" /\ calls = <<>>
        ELSE IF \E q \in ParamNames : request.data.obj[q].t = "absent"
        THEN response.status = 400 /\ response.error = "Missing parameters" /\ calls = <<>>
        ELSE IF \E q \in ParamNames : request.data.obj[q].t \in {"null", "str"}
        THEN InvalidParameterValues
        ELSE PipelineRun

-----------------------------------------------------------------------------
(* More properties of the model store *)

\* the value load_trained_model returned holds the contents of the four files of
\* timestamp ts, all of them whole
ReturnedSetOf(ts) ==
    /\ SetReadable(ts)
    /\ loadResult.result.value.model = disk[ModelFile(ts)].obj
    /\ loadResult.result.value.scaler = disk[ScalerFile(ts)].obj
    /\ loadResult.result.value.imputer = disk[ImputerFile(ts)].obj
    /\ loadResult.result.value.metadata = disk[MetadataFile(ts)].obj

\* the timestamp a call of load_trained_model is about: the one given or, with
\* None, the one of the latest model file
AskedTimestamp ==
    IF loadResult.timestamp.none THEN strftime(LatestModelInstant)
    ELSE loadResult.timestamp.ts

\* C15: load_trained_model returns components only when the model, scaler,
\* imputer and metadata files of one timestamp were all read, and what it returns
\* are the contents of those four; when one of the four files of the timestamp it
\* is about is missing or unreadable it raises and returns nothing.
C15_AllOrNothing ==
    ~loadResult.none =>
        /\ loadResult.result.ok =>
              /\ \E ts \in TimestampsOnDisk : ReturnedSetOf(ts)
              /\ ~loadResult.timestamp.none => ReturnedSetOf(loadResult.timestamp.ts)
        /\ ~loadResult.result.ok => "value" \notin DOMAIN loadResult.result
        /\ (dirExists /\ (loadResult.timestamp.none => ModelInstants # {})
              /\ ~SetReadable(AskedTimestamp))
              => ~loadResult.result.ok

\* a set was returned from a directory that also holds what an interrupted save
\* left under another timestamp
C15_Witness ==
    /\ ~loadResult.none
    /\ loadResult.result.ok
    /\ crashes = 1
    /\ \E ts \in TimestampsOnDisk : ~SetReadable(ts)
    /\ \E ts \in TimestampsOnDisk :
          ScalerFile(ts) \in DOMAIN disk /\ disk[ScalerFile(ts)].obj # loadResult.result.value.scaler

\* the last save was cut short after its model file was written and before its
\* metadata file was begun, and the directory has no metadata file of its timestamp
CutBeforeMetadata ==
    /\ ~lastSave.none
    /\ lastSave.written \in 1..3
    /\ MetadataFile(lastSave.ts) \notin DOMAIN disk

\* a scaler or imputer file of timestamp ts is truncated, and nothing that is
\* read before it is missing
TruncatedBeforeMissing(ts) ==
    /\ ScalerFile(ts) \in DOMAIN disk
    /\ \/ ~disk[ScalerFile(ts)].whole
       \/ ImputerFile(ts) \in DOMAIN disk /\ ~disk[ImputerFile(ts)].whole

\* C16 as stated: after a save cut short between its model file and its metadata
\* file, load_trained_model() raises FileNotFoundError.
C16_IncompleteRaisesFileNotFound ==
    (LoadedWithNone /\ CutBeforeMetadata) =>
        /\ ~loadResult.result.ok
        /\ loadResult.result.exc = "FileNotFoundError"

\* C16: after a save cut short between its model file and its metadata file,
\* load_trained_model() is about that save's timestamp and raises, whatever older
\* complete set the directory holds: FileNotFoundError, or the generic Exception
\* when the save left a truncated scaler or imputer file that is read before the
\* first missing file.
C16_IncompleteRaises ==
    (LoadedWithNone /\ CutBeforeMetadata) =>
        /\ AskedTimestamp = lastSave.ts
        /\ ~loadResult.result.ok
        /\ loadResult.result.exc =
              (IF TruncatedBeforeMissing(lastSave.ts) THEN "Exception"
               ELSE "FileNotFoundError")

\* an older complete set is there, the newest has its model, scaler and imputer
\* files only, and the load raised FileNotFoundError
C16_Witness ==
    /\ LoadedWithNone
    /\ CutBeforeMetadata
    /\ lastSave.written = 3
    /\ \E ts \in TimestampsOnDisk : ts # lastSave.ts /\ SetReadable(ts)
    /\ ~loadResult.result.ok
    /\ loadResult.result.exc = "FileNotFoundError"

-----------------------------------------------------------------------------
(* Properties of the cache of predict.py *)

\* the step is a call of load_model, or of predictWaterQuality, which begins
\* with one
CallsLoadModel == request.none /\ ~request'.none

\* the calls of load_trained_model among the calls of the step
LoadCalls == SelectSeq(calls', LAMBDA c : c.op = "load_trained_model")

\* C17: load_model caches.  With the cache set, a call makes no call of
\* load_trained_model, leaves the cache as it is and load_model returns the cached
\* object, whatever was saved since; with the cache empty, a call calls
\* load_trained_model once, and either caches its value or raises its exception
\* and leaves the cache empty, so that the next call loads again.
C17_LoadModelCaches ==
    [][/\ ~model_components.none => model_components' = model_components
       /\ CallsLoadModel =>
            /\ ~model_components.none =>
                  /\ LoadCalls = <<>>
                  /\ request'.route = "load_model" =>
                        response'.ok /\ response'.components = model_components
            /\ model_components.none =>
                  /\ Len(LoadCalls) = 1
                  /\ LET r == load_trained_model(dirExists, disk, None)
                     IN IF r.ok
                        THEN model_components' = r.value
                        ELSE /\ model_components'.none
                             /\ ~response'.ok
                             /\ response'.exc = r.exc
                             /\ response'.msg = r.msg]_vars

\* load_model returned the cached set although a newer one is on disk
C17_Witness ==
    /\ ~request.none
    /\ request.route = "load_model"
    /\ response.ok
    /\ calls = <<>>
    /\ ~model_components.none
    /\ load_trained_model(dirExists, disk, None).ok
    /\ load_trained_model(dirExists, disk, None).value # model_components

-----------------------------------------------------------------------------
(* Properties of the failures of load_trained_model *)

\* the files load_trained_model reads for timestamp ts, in the order it reads them
ReadOrder(ts) == <<ModelFile(ts), ScalerFile(ts), ImputerFile(ts), MetadataFile(ts)>>

\* file f cannot be read: it is missing or truncated
Unreadable(f) == f \notin DOMAIN disk \/ ~disk[f].whole

\* the first file of timestamp ts that cannot be read
FirstUnreadable(ts) ==
    ReadOrder(ts)[CHOOSE i \in 1..4 :
                     /\ Unreadable(ReadOrder(ts)[i])
                     /\ \A j \in 1..(i - 1) : ~Unreadable(ReadOrder(ts)[j])]

\* load_trained_model got as far as reading files
ReachedTheReads == dirExists /\ (loadResult.timestamp.none => ModelInstants # {})

\* C18: every failure of load_trained_model is an exception of the stated kind,
\* and the call writes nothing: no directory is FileNotFoundError; no model file
\* and no timestamp given is FileNotFoundError 'No saved models found'; a read
\* that fails on a missing file of the chosen timestamp is FileNotFoundError; a
\* read that fails otherwise is the generic Exception 'Error loading model'.
C18_FailuresReported ==
    /\ [](~loadResult.none =>
            /\ ~dirExists =>
                  /\ ~loadResult.result.ok
                  /\ loadResult.result.exc = "FileNotFoundError"
            /\ (dirExists /\ loadResult.timestamp.none /\ ModelInstants = {}) =>
                  /\ ~loadResult.result.ok
                  /\ loadResult.result.exc = "FileNotFoundError"
                  /\ loadResult.result.msg = "No saved models found"
            /\ (ReachedTheReads /\ ~SetReadable(AskedTimestamp)) =>
                  /\ ~loadResult.result.ok
                  /\ IF FirstUnreadable(AskedTimestamp) \notin DOMAIN disk
                     THEN loadResult.result.exc = "FileNotFoundError"
                     ELSE /\ loadResult.result.exc = "Exception"
                          /\ loadResult.result.msg = "Error loading model"
            /\ (ReachedTheReads /\ SetReadable(AskedTimestamp)) => loadResult.result.ok)
    /\ [][(~loadResult'.none /\ loadResult' # loadResult) =>
              (dirExists' = dirExists /\ disk' = disk)]_vars

\* the four kinds of failure are met: here the load with no timestamp failed on
\* a truncated file of the newest set
C18_Witness ==
    /\ ~loadResult.none
    /\ loadResult.timestamp.none
    /\ ReachedTheReads
    /\ ~SetReadable(AskedTimestamp)
    /\ FirstUnreadable(AskedTimestamp) \in DOMAIN disk
    /\ ~loadResult.result.ok
    /\ loadResult.result.exc = "Exception"

-----------------------------------------------------------------------------
(* Properties of the status routes *)

\* a request of the route was answered and its response is not sent yet
GetAnswered(route) == ~request.none /\ request.route = route

\* C19: while the server serves, /api/health would report model_loaded = true
\* exactly when /api/model-info would report status 'loaded', and the responses
\* they give say so; /api/health is a 200 'healthy' either way; and answering a
\* GET route calls nothing of the pipeline or the store and leaves model_loaded
\* and _model_components as they are.
C19_StatusRoutesAgree ==
    /\ [](pc = "serving" =>
            /\ health_check(model_loaded).body.model_loaded
                  <=> (model_info(model_components).body.status = "loaded")
            /\ health_check(model_loaded).status = 200
            /\ health_check(model_loaded).body.status = "healthy"
            /\ GetAnswered("GET /api/health") =>
                  /\ response.status = 200
                  /\ response.body.status = "healthy"
                  /\ response.body.model_loaded = ~model_components.none
            /\ GetAnswered("GET /api/model-info") =>
                  (response.body.status = "loaded") = model_loaded)
    /\ [][(request.none /\ ~request'.none /\ request'.route \in GetRoutes) =>
              /\ model_loaded' = model_loaded
              /\ model_components' = model_components
              /\ calls' = <<>>
              /\ dirExists' = dirExists /\ disk' = disk]_vars

\* /api/model-info answered 'loaded' on a server whose model is loaded
C19_Witness ==
    /\ GetAnswered("GET /api/model-info")
    /\ response.body.status = "loaded"
    /\ model_loaded
    /\ health_check(model_loaded).body.model_loaded

-----------------------------------------------------------------------------
(* Properties of check_water_quality *)

\* the run is over
CheckerDone == checker.pc = "done"

\* value v of parameter p is within the stated limits, compared as floats are
WithinLimits(p, value) ==
    IF p = "ph"
    THEN FloatLeq(Float(65), value) /\ FloatLeq(value, Float(85))
    ELSE FloatLeq(value, Float(thresholds[p][1]))

\* C20: check_water_quality prints POTABLE exactly when nine values were read
\* and each is within its limit (6.5 <= ph <= 8.5, hardness <= 200, solids <= 500,
\* chloramines <= 4, sulfate <= 250, conductivity <= 500, organic_carbon <= 10,
\* trihalomethanes <= 80, turbidity <= 5), NOT POTABLE when nine were read and
\* one is not, and the invalid-input message and no verdict when what was typed
\* at a prompt is no float.
C20_PotableIffWithinLimits ==
    CheckerDone =>
        /\ checker.printed = "POTABLE" <=>
              /\ Len(checker.values) = Len(required_params)
              /\ \A i \in 1..Len(checker.values) :
                    WithinLimits(required_params[i], checker.values[i])
        /\ (\E i \in 1..Len(checker.typed) : checker.typed[i].t = "str") <=>
              checker.printed = "Invalid input"
        /\ checker.printed \in {"POTABLE", "NOT POTABLE", "Invalid input"}

====
